---- MODULE Spec2Model ----
(***************************************************************************)
(* s3-log: a write-ahead log kept as one object per record in an S3        *)
(* bucket (src/s3_wal.go).  The model holds the bucket, every driver's     *)
(* cursor (S3WAL.length) and the position of every call in flight.         *)
(*                                                                         *)
(* Bytes are numbers 0..255, byte strings and keys are sequences; a key is *)
(* a sequence of one-character strings.  The S3 client is the environment: *)
(* PutObject with If-None-Match "*" is atomic and answers Ok, 412          *)
(* (AlreadyExists) or a transport error that leaves the bucket alone;      *)
(* GetObject answers the body, NoSuchKey or a transport error;             *)
(* ListObjectsV2 answers pages of at most PageSize keys in key order.      *)
(* SHA-256 is modelled as a collision-free function on the byte strings    *)
(* the model builds (see Sum256).                                          *)
(* The driver takes no lock: concurrent calls on one instance read and     *)
(* write length as a whole word, in any order, between their round trips.  *)
(***************************************************************************)
EXTENDS Integers, Sequences, FiniteSets, TLC

VARIABLES store, length, pc, loc, last, won, fresh, written, ncalls, nflips

vars == <<store, length, pc, loc, last, won, fresh, written, ncalls, nflips>>

---------------------------------------------------------------------------
(* Bounds of the exploration *)

MaxCalls == 4
MaxConcCalls == 3
MaxDamageCalls == 3
PageSize == 2
MaxFlips == 1

(* Program constants *)

KeyWidth == 20
OffsetLen == 8
ChecksumLen == 32
MinRecordLen == 40

Procs == {1, 2}
Drivers == {"d1", "d2", "d3"}
Payloads == {<< >>, <<7>>}
FlipBits == {0, 7}
ReadOffsets == {1, 2}

(* A prefix longer than the keys of the other namespaces *)
LongPrefix == [i \in 1..22 |-> "b"]

(* NewS3WAL: the prefix each driver instance was constructed with.  d1 and *)
(* d2 share a namespace; d3 and d4 have one each in the same bucket.       *)
Prefix(d) ==
  IF d = "d4" THEN LongPrefix ELSE IF d = "d3" THEN <<"b", "b">> ELSE <<"a">>

(* Every driver instance constructed on the bucket *)
AllDrivers == Drivers \cup {"d4"}

---------------------------------------------------------------------------
(* Strings *)

Alphabet == <<"/", "0", "1", "2", "3", "4", "5", "6", "7", "8", "9", "a", "b">>
Ord(c) == CHOOSE i \in 1..Len(Alphabet) : Alphabet[i] = c
DigitChars == <<"0", "1", "2", "3", "4", "5", "6", "7", "8", "9">>
IsDigit(c) == \E i \in 1..10 : DigitChars[i] = c
DigitVal(c) == (CHOOSE i \in 1..10 : DigitChars[i] = c) - 1

RECURSIVE StrLess(_, _)
StrLess(s, t) ==
  IF t = << >> THEN FALSE
  ELSE IF s = << >> THEN TRUE
  ELSE IF Ord(Head(s)) # Ord(Head(t)) THEN Ord(Head(s)) < Ord(Head(t))
  ELSE StrLess(Tail(s), Tail(t))

RECURSIVE DecDigits(_)
DecDigits(n) ==
  IF n < 10 THEN <<DigitChars[n + 1]>>
  ELSE Append(DecDigits(n \div 10), DigitChars[(n % 10) + 1])

RECURSIVE Zeros(_)
Zeros(n) == IF n <= 0 THEN << >> ELSE <<"0">> \o Zeros(n - 1)

(* fmt.Sprintf("%020d", offset) *)
Sprintf020d(n) == Zeros(KeyWidth - Len(DecDigits(n))) \o DecDigits(n)

RECURSIVE DigitsValue(_)
DigitsValue(s) ==
  IF s = << >> THEN 0
  ELSE DigitsValue(SubSeq(s, 1, Len(s) - 1)) * 10 + DigitVal(s[Len(s)])

(* strconv.ParseUint(s, 10, 64): a syntax error on the empty string and on *)
(* any character that is no digit.  The explored keys stay far below 2^64, *)
(* so its range error cannot arise.                                        *)
ParseUint(s) ==
  IF s = << >> \/ \E i \in 1..Len(s) : ~IsDigit(s[i])
  THEN [err |-> TRUE, val |-> 0]
  ELSE [err |-> FALSE, val |-> DigitsValue(s)]

(* getObjectKey that formats the offset with %d *)
getObjectKeyUnpadded(prefix, offset) == prefix \o <<"/">> \o DecDigits(offset)

getObjectKey(prefix, offset) == prefix \o <<"/">> \o Sprintf020d(offset)

(* The key of offset o for driver d *)
KeyOf(d, o) == getObjectKey(Prefix(d), o)

(* key[len(w.prefix)+1:] panics when the key is shorter than that *)
getOffsetFromKey(prefix, key) ==
  IF Len(key) < Len(prefix) + 1
  THEN [panic |-> TRUE, err |-> TRUE, val |-> 0]
  ELSE [panic |-> FALSE] @@ ParseUint(SubSeq(key, Len(prefix) + 2, Len(key)))

---------------------------------------------------------------------------
(* Bytes *)

(* A uint64 as four 16-bit limbs, most significant first (the model's     *)
(* integers are narrower than 64 bits).                                    *)
U64(n) == <<0, 0, n \div 65536, n % 65536>>

(* binary.Write(buf, binary.BigEndian, offset) *)
EncodeBE(n) ==
  LET l == U64(n)
  IN [i \in 1..OffsetLen |->
        IF i % 2 = 1 THEN l[(i + 1) \div 2] \div 256 ELSE l[i \div 2] % 256]

(* binary.Read(..., binary.BigEndian, &storedOffset) *)
DecodeBE(b) == [j \in 1..4 |-> b[2 * j - 1] * 256 + b[2 * j]]

(* sha256.Sum256: a 32-byte digest.  Modelled as the length byte followed  *)
(* by the scrambled input, zero-filled: different inputs of at most 31     *)
(* bytes have different digests, which is the collision resistance the     *)
(* code relies on.                                                         *)
Sum256(b) ==
  [i \in 1..ChecksumLen |->
     IF i = 1 THEN Len(b) % 256
     ELSE IF i - 1 <= Len(b) THEN (b[i - 1] * 7 + 3) % 256
     ELSE 0]

calculateChecksum(buf) == Sum256(buf)

(* validateChecksum that accepts every digest *)
validateChecksumSkipped(data) == TRUE

validateChecksum(data) ==
  LET storedChecksum == SubSeq(data, Len(data) - ChecksumLen + 1, Len(data))
      recordData == SubSeq(data, 1, Len(data) - ChecksumLen)
  IN storedChecksum = calculateChecksum(recordData)

(* prepareBody with the digest taken over the payload alone *)
prepareBodyDigestOverData(offset, data) ==
  EncodeBE(offset) \o data \o calculateChecksum(data)

prepareBody(offset, data) ==
  LET buf == EncodeBE(offset) \o data
  IN buf \o calculateChecksum(buf)

validateOffset(data, offset) ==
  IF Len(data) < OffsetLen THEN FALSE
  ELSE DecodeBE(SubSeq(data, 1, OffsetLen)) = U64(offset)

---------------------------------------------------------------------------
(* The bucket *)

EmptyFcn == [k \in {} |-> 0]

(* PutObject without the If-None-Match condition: the object is replaced *)
PutObjectUnconditional(st, key, body) ==
  [res |-> "ok",
   st |-> [k \in DOMAIN st \cup {key} |-> IF k = key THEN body ELSE st[k]]]

(* PutObject with IfNoneMatch "*" *)
PutObject(st, key, body) ==
  IF key \in DOMAIN st
  THEN [res |-> "AlreadyExists", st |-> st]
  ELSE [res |-> "ok", st |-> (key :> body) @@ st]

(* The keys a ListObjectsV2Input of LastRecord selects: it names the       *)
(* bucket only, so every key of the bucket.                                *)
ListedKeys(st, prefix) == DOMAIN st

RECURSIVE FirstKeys(_, _)
FirstKeys(K, n) ==
  IF n = 0 \/ K = {} THEN << >>
  ELSE LET m == CHOOSE k \in K : \A j \in K : j = k \/ StrLess(k, j)
       IN <<m>> \o FirstKeys(K \ {m}, n - 1)

(* A paginator that reports no further page after any page *)
NextPageNoMore(st, prefix, token) ==
  LET K == {k \in ListedKeys(st, prefix) : token = << >> \/ StrLess(token, k)}
  IN [keys |-> FirstKeys(K, PageSize), more |-> FALSE]

(* One page of the paginator: the next PageSize keys in key order after    *)
(* the continuation token, and whether more remain.                        *)
NextPage(st, prefix, token) ==
  LET K == {k \in ListedKeys(st, prefix) : token = << >> \/ StrLess(token, k)}
  IN [keys |-> FirstKeys(K, PageSize), more |-> Cardinality(K) > PageSize]

(* The loop body of LastRecord over the keys of one page *)
RECURSIVE ScanPage(_, _, _)
ScanPage(prefix, keys, maxOffset) ==
  IF keys = << >> THEN [kind |-> "ok", max |-> maxOffset]
  ELSE LET r == getOffsetFromKey(prefix, Head(keys))
       IN IF r.panic THEN [kind |-> "Panic", max |-> maxOffset]
          ELSE IF r.err THEN [kind |-> "KeyFormat", max |-> maxOffset]
          ELSE ScanPage(prefix, Tail(keys),
                        IF r.val > maxOffset THEN r.val ELSE maxOffset)

(* Read that drops the error of GetObject and validates an empty body *)
ReadResultIgnoresGetError(st, prefix, offset, fault) ==
  LET key == getObjectKey(prefix, offset)
      none == [off |-> 0, data |-> << >>]
      data == IF fault \/ key \notin DOMAIN st THEN << >> ELSE st[key]
  IN IF Len(data) < MinRecordLen THEN [kind |-> "Malformed"] @@ none
     ELSE IF ~validateOffset(data, offset)
       THEN [kind |-> "OffsetMismatch"] @@ none
     ELSE IF ~validateChecksum(data)
       THEN [kind |-> "ChecksumMismatch"] @@ none
     ELSE [kind |-> "ok", off |-> offset,
           data |-> SubSeq(data, OffsetLen + 1, Len(data) - ChecksumLen)]

(* Read that validates the digest before the embedded offset *)
ReadResultChecksumFirst(st, prefix, offset, fault) ==
  LET key == getObjectKey(prefix, offset)
      none == [off |-> 0, data |-> << >>]
  IN IF fault THEN [kind |-> "Transport"] @@ none
     ELSE IF key \notin DOMAIN st THEN [kind |-> "NoSuchRecord"] @@ none
     ELSE LET data == st[key]
          IN IF Len(data) < MinRecordLen THEN [kind |-> "Malformed"] @@ none
             ELSE IF ~validateChecksum(data)
               THEN [kind |-> "ChecksumMismatch"] @@ none
             ELSE IF ~validateOffset(data, offset)
               THEN [kind |-> "OffsetMismatch"] @@ none
             ELSE [kind |-> "ok", off |-> offset,
                   data |-> SubSeq(data, OffsetLen + 1, Len(data) - ChecksumLen)]

(* Read after its GetObject round trip: fault is a transport error *)
ReadResult(st, prefix, offset, fault) ==
  LET key == getObjectKey(prefix, offset)
      none == [off |-> 0, data |-> << >>]
  IN IF fault THEN [kind |-> "Transport"] @@ none
     ELSE IF key \notin DOMAIN st THEN [kind |-> "NoSuchRecord"] @@ none
     ELSE LET data == st[key]
          IN IF Len(data) < MinRecordLen THEN [kind |-> "Malformed"] @@ none
             ELSE IF ~validateOffset(data, offset)
               THEN [kind |-> "OffsetMismatch"] @@ none
             ELSE IF ~validateChecksum(data)
               THEN [kind |-> "ChecksumMismatch"] @@ none
             ELSE [kind |-> "ok", off |-> offset,
                   data |-> SubSeq(data, OffsetLen + 1, Len(data) - ChecksumLen)]

-------------------------------------------------------------------------------------------------------------------------------------------------
(* State *)

IdleLoc ==
  [op |-> "none", drv |-> "d1", data |-> << >>, off |-> 0, maxOffset |-> 0,
   token |-> << >>, len0 |-> 0]

NoCall ==
  [op |-> "none", drv |-> "d1", data |-> << >>, target |-> 0, kind |-> "none",
   off |-> 0, rdata |-> << >>, len0 |-> 0, retry |-> 0, recovered |-> 0]

WonOf(k) == IF k \in DOMAIN won THEN won[k] ELSE 0

(* store   : the bucket, key -> object bytes                               *)
(* length  : S3WAL.length of every driver instance                         *)
(* pc, loc : position and locals of the call each caller has in flight     *)
(* last    : the call that returned most recently, with its result, and    *)
(*           the driver's cursor as it was when the call was issued;       *)
(*           retry is 1 for an Append that lost with AlreadyExists, 2 for  *)
(*           a successful LastRecord of the same driver returning right    *)
(*           after it, 3 for an Append of that driver returning right      *)
(*           after that one (recovered is the offset LastRecord returned)  *)
(* won     : per key, how many Appends for it have returned success        *)
(* fresh   : per driver, how many of its Appends have returned success,    *)
(*           or -1 once it has called LastRecord                           *)
(* written : per key, the payload handed to the Append that created the    *)
(*           object and the bytes that Append stored                       *)
(* ncalls, nflips : calls issued, bits flipped                             *)
Init ==
  /\ store = EmptyFcn
  /\ length = [d \in AllDrivers |-> 0]
  /\ pc = [p \in Procs |-> "idle"]
  /\ loc = [p \in Procs |-> IdleLoc]
  /\ last = NoCall
  /\ won = EmptyFcn
  /\ fresh = [d \in AllDrivers |-> 0]
  /\ written = EmptyFcn
  /\ ncalls = 0
  /\ nflips = 0

AllIdle == \A p \in Procs : pc[p] = "idle"

(* The call of p returns (kind, off, rdata) to its caller *)
Return(p, kind, off, rdata) ==
  LET l == loc[p]
      follows == last.drv = l.drv
      retry == IF l.op = "Append" /\ follows /\ last.retry = 2 THEN 3
               ELSE IF l.op = "Append" /\ kind = "AlreadyExists" THEN 1
               ELSE IF l.op = "LastRecord" /\ kind = "ok" /\ follows
                       /\ last.retry = 1 THEN 2
               ELSE 0
  IN /\ pc' = [pc EXCEPT ![p] = "idle"]
     /\ loc' = [loc EXCEPT ![p] = IdleLoc]
     /\ last' = [op |-> l.op, drv |-> l.drv, data |-> l.data, target |-> l.off,
                 kind |-> kind, off |-> off, rdata |-> rdata, len0 |-> l.len0,
                 retry |-> retry,
                 recovered |-> IF retry = 3 THEN last.off ELSE 0]

Issue(p, op, d, data, off) ==
  /\ pc[p] = "idle"
  /\ ncalls < MaxCalls
  /\ ncalls' = ncalls + 1
  /\ loc' = [loc EXCEPT ![p] =
               [op |-> op, drv |-> d, data |-> data, off |-> off, maxOffset |-> 0,
                token |-> << >>, len0 |-> length[d]]]

---------------------------------------------------------------------------
(* Append *)

(* Append that advances the cursor before the put *)
AppendBeginEager(p, D) ==
  \E d \in D, data \in Payloads :
    /\ Issue(p, "Append", d, data, length[d] + 1)
    /\ pc' = [pc EXCEPT ![p] = "a_put"]
    /\ length' = [length EXCEPT ![d] = @ + 1]
    /\ UNCHANGED <<store, last, won, fresh, written, nflips>>

(* nextOffset := w.length + 1 *)
AppendBegin(p, D) ==
  \E d \in D, data \in Payloads :
    /\ Issue(p, "Append", d, data, length[d] + 1)
    /\ pc' = [pc EXCEPT ![p] = "a_put"]
    /\ UNCHANGED <<store, length, last, won, fresh, written, nflips>>

(* prepareBody, getObjectKey, PutObject; an error returns (0, err) *)
AppendPut(p) ==
  /\ pc[p] = "a_put"
  /\ \E fault \in BOOLEAN :
       LET l == loc[p]
           key == getObjectKey(Prefix(l.drv), l.off)
           r == PutObject(store, key, prepareBody(l.off, l.data))
       IN IF fault
          THEN /\ Return(p, "Transport", 0, << >>)
               /\ UNCHANGED <<store, written>>
          ELSE IF r.res # "ok"
          THEN /\ Return(p, r.res, 0, << >>)
               /\ store' = r.st
               /\ UNCHANGED written
          ELSE /\ store' = r.st
               /\ written' = (key :> [data |-> l.data, body |-> r.st[key]]) @@ written
               /\ pc' = [pc EXCEPT ![p] = "a_commit"]
               /\ UNCHANGED <<loc, last>>
  /\ UNCHANGED <<length, won, fresh, ncalls, nflips>>

(* Append that returns without storing nextOffset in w.length *)
AppendCommitNoAdvance(p) ==
  /\ pc[p] = "a_commit"
  /\ LET l == loc[p]
         key == getObjectKey(Prefix(l.drv), l.off)
     IN /\ Return(p, "ok", l.off, << >>)
        /\ won' = (key :> WonOf(key) + 1) @@ won
        /\ fresh' = [fresh EXCEPT ![l.drv] = IF @ < 0 THEN @ ELSE @ + 1]
  /\ UNCHANGED <<store, length, written, ncalls, nflips>>

(* w.length = nextOffset; return nextOffset, nil *)
AppendCommit(p) ==
  /\ pc[p] = "a_commit"
  /\ LET l == loc[p]
         key == getObjectKey(Prefix(l.drv), l.off)
     IN /\ length' = [length EXCEPT ![l.drv] = l.off]
        /\ Return(p, "ok", l.off, << >>)
        /\ won' = (key :> WonOf(key) + 1) @@ won
        /\ fresh' = [fresh EXCEPT ![l.drv] = IF @ < 0 THEN @ ELSE @ + 1]
  /\ UNCHANGED <<store, written, ncalls, nflips>>

---------------------------------------------------------------------------
(* Read *)

(* Read that stores the offset it has read in w.length *)
ReadGetMovesCursor(p) ==
  /\ pc[p] = "r_get"
  /\ \E fault \in BOOLEAN :
       LET l == loc[p]
           r == ReadResult(store, Prefix(l.drv), l.off, fault)
       IN /\ Return(p, r.kind, r.off, r.data)
          /\ length' = [length EXCEPT ![l.drv] = IF r.kind = "ok" THEN l.off ELSE @]
  /\ UNCHANGED <<store, won, fresh, written, ncalls, nflips>>

ReadBegin(p, D) ==
  \E d \in D, o \in ReadOffsets :
    /\ Issue(p, "Read", d, << >>, o)
    /\ pc' = [pc EXCEPT ![p] = "r_get"]
    /\ UNCHANGED <<store, length, last, won, fresh, written, nflips>>

ReadGet(p) ==
  /\ pc[p] = "r_get"
  /\ \E fault \in BOOLEAN :
       LET l == loc[p]
           r == ReadResult(store, Prefix(l.drv), l.off, fault)
       IN Return(p, r.kind, r.off, r.data)
  /\ UNCHANGED <<store, length, won, fresh, written, ncalls, nflips>>

---------------------------------------------------------------------------
(* LastRecord *)

(* the paginator is built; maxOffset := 0 *)
LastRecordBegin(p, D) ==
  \E d \in D :
    /\ Issue(p, "LastRecord", d, << >>, 0)
    /\ pc' = [pc EXCEPT ![p] = "lr_page"]
    /\ fresh' = [fresh EXCEPT ![d] = -1]
    /\ UNCHANGED <<store, length, last, won, written, nflips>>

(* paginator.NextPage and the loop over output.Contents *)
LastRecordPage(p) ==
  /\ pc[p] = "lr_page"
  /\ \E fault \in BOOLEAN :
       LET l == loc[p]
           page == NextPage(store, Prefix(l.drv), l.token)
           r == ScanPage(Prefix(l.drv), page.keys, l.maxOffset)
       IN IF fault THEN Return(p, "Transport", 0, << >>)
          ELSE IF r.kind # "ok" THEN Return(p, r.kind, 0, << >>)
          ELSE /\ loc' = [loc EXCEPT ![p].maxOffset = r.max,
                                     ![p].token = IF page.keys = << >> THEN l.token
                                                  ELSE page.keys[Len(page.keys)]]
               /\ pc' = [pc EXCEPT ![p] = IF page.more THEN "lr_page" ELSE "lr_set"]
               /\ UNCHANGED last
  /\ UNCHANGED <<store, length, won, fresh, written, ncalls, nflips>>

(* LastRecord that goes on to its Read without storing maxOffset *)
LastRecordSetLengthKeepsCursor(p) ==
  /\ pc[p] = "lr_set"
  /\ LET l == loc[p]
     IN IF l.maxOffset = 0
        THEN Return(p, "EmptyLog", 0, << >>)
        ELSE /\ pc' = [pc EXCEPT ![p] = "lr_read"]
             /\ UNCHANGED <<loc, last>>
  /\ UNCHANGED <<store, length, won, fresh, written, ncalls, nflips>>

(* if maxOffset == 0 { return "WAL is empty" }; w.length = maxOffset *)
LastRecordSetLength(p) ==
  /\ pc[p] = "lr_set"
  /\ LET l == loc[p]
     IN IF l.maxOffset = 0
        THEN /\ Return(p, "EmptyLog", 0, << >>)
             /\ UNCHANGED length
        ELSE /\ length' = [length EXCEPT ![l.drv] = l.maxOffset]
             /\ pc' = [pc EXCEPT ![p] = "lr_read"]
             /\ UNCHANGED <<loc, last>>
  /\ UNCHANGED <<store, won, fresh, written, ncalls, nflips>>

(* return w.Read(ctx, maxOffset) *)
LastRecordRead(p) ==
  /\ pc[p] = "lr_read"
  /\ \E fault \in BOOLEAN :
       LET l == loc[p]
           r == ReadResult(store, Prefix(l.drv), l.maxOffset, fault)
       IN Return(p, r.kind, r.off, r.data)
  /\ UNCHANGED <<store, length, won, fresh, written, ncalls, nflips>>

(* A whole LastRecord without transport errors on bucket st, as one       *)
(* function: the pages drained in turn, then the emptiness test, the       *)
(* cursor update (sets, max) and the Read.                                 *)
RECURSIVE Drain(_, _, _, _)
Drain(st, prefix, token, maxOffset) ==
  LET page == NextPage(st, prefix, token)
      r == ScanPage(prefix, page.keys, maxOffset)
  IN IF r.kind # "ok" \/ ~page.more THEN r
     ELSE Drain(st, prefix, page.keys[Len(page.keys)], r.max)

LastRecordOn(st, prefix) ==
  LET r == Drain(st, prefix, << >>, 0)
      none == [off |-> 0, data |-> << >>, sets |-> FALSE, max |-> 0]
  IN IF r.kind # "ok" THEN [kind |-> r.kind] @@ none
     ELSE IF r.max = 0 THEN [kind |-> "EmptyLog"] @@ none
     ELSE ReadResult(st, prefix, r.max, FALSE) @@ [sets |-> TRUE, max |-> r.max]

---------------------------------------------------------------------------
(* A stored object is damaged outside the program: one bit of its offset   *)
(* field or payload flips, the digest field stays as written.              *)

FlipBit(b, k) ==
  LET w == 2 ^ k
  IN IF (b \div w) % 2 = 1 THEN b - w ELSE b + w

Corrupt ==
  /\ AllIdle
  /\ nflips < MaxFlips
  /\ \E k \in DOMAIN store, bit \in FlipBits :
       \E pos \in 1..(Len(store[k]) - ChecksumLen) :
         store' = [store EXCEPT ![k][pos] = FlipBit(@, bit)]
  /\ nflips' = nflips + 1
  /\ UNCHANGED <<length, pc, loc, last, won, fresh, written, ncalls>>

(* The lowest bit flips in the last byte of a stored object's offset       *)
(* field, of its payload or of its digest.                                 *)
Garble ==
  /\ AllIdle
  /\ nflips < MaxFlips
  /\ \E k \in DOMAIN store :
       \E pos \in {OffsetLen, Len(store[k]) - ChecksumLen, Len(store[k])} :
         /\ pos \in 1..Len(store[k])
         /\ store' = [store EXCEPT ![k][pos] = FlipBit(@, 0)]
  /\ nflips' = nflips + 1
  /\ UNCHANGED <<length, pc, loc, last, won, fresh, written, ncalls>>

(* A stored object is cut short: to nothing, to one byte less than the     *)
(* smallest record, or by its last byte.                                   *)
Truncate ==
  /\ AllIdle
  /\ nflips < MaxFlips
  /\ \E k \in DOMAIN store :
       \E n \in {0, MinRecordLen - 1, Len(store[k]) - 1} :
         /\ n < Len(store[k])
         /\ store' = [store EXCEPT ![k] = SubSeq(@, 1, n)]
  /\ nflips' = nflips + 1
  /\ UNCHANGED <<length, pc, loc, last, won, fresh, written, ncalls>>

(* A stored object is copied, as it is, under the key of another offset of *)
(* its namespace.                                                          *)
Misplace ==
  /\ AllIdle
  /\ nflips < MaxFlips
  /\ \E k \in DOMAIN store, o \in ReadOffsets :
       /\ KeyOf("d1", o) # k
       /\ store' = [j \in DOMAIN store \cup {KeyOf("d1", o)} |->
                      IF j = KeyOf("d1", o) THEN store[k] ELSE store[j]]
  /\ nflips' = nflips + 1
  /\ UNCHANGED <<length, pc, loc, last, won, fresh, written, ncalls>>

---------------------------------------------------------------------------
(* Specifications *)

(* Callers run concurrently: any interleaving of the steps of their       *)
(* calls.  Reads are issued through one driver of each namespace.          *)
Next ==
  \E p \in Procs :
    \/ ncalls < MaxConcCalls /\ AppendBegin(p, Drivers)
    \/ AppendPut(p)
    \/ AppendCommit(p)
    \/ ncalls < MaxConcCalls /\ ReadBegin(p, {"d2", "d3"})
    \/ ReadGet(p)
    \/ ncalls < MaxConcCalls /\ LastRecordBegin(p, Drivers)
    \/ LastRecordPage(p)
    \/ LastRecordSetLength(p)
    \/ LastRecordRead(p)

Spec == Init /\ [][Next]_vars

(* One call at a time: a call is issued only when none is in flight *)
SeqNext ==
  \/ AllIdle /\ AppendBegin(1, Drivers)
  \/ AllIdle /\ ReadBegin(1, Drivers)
  \/ AllIdle /\ LastRecordBegin(1, Drivers)
  \/ AppendPut(1)
  \/ AppendCommit(1)
  \/ ReadGet(1)
  \/ LastRecordPage(1)
  \/ LastRecordSetLength(1)
  \/ LastRecordRead(1)

SeqSpec == Init /\ [][SeqNext]_vars

(* One call at a time on one namespace, Append and Read only, with damage  *)
(* to stored objects                                                       *)
CorruptNext ==
  \/ AllIdle /\ ncalls < MaxDamageCalls /\ AppendBegin(1, {"d1"})
  \/ AllIdle /\ ncalls < MaxDamageCalls /\ ReadBegin(1, {"d2"})
  \/ AppendPut(1)
  \/ AppendCommit(1)
  \/ ReadGet(1)
  \/ Corrupt

CorruptSpec == Init /\ [][CorruptNext]_vars

(* The key mapping alone: getObjectKey is applied to an offset and         *)
(* getOffsetFromKey to a key, for offsets and keys drawn from KeyOffsets   *)
(* and CandidateKeys.  loc holds the inputs (off and maxOffset two         *)
(* offsets, token the key), last the results (rdata the key produced for   *)
(* off; kind and off the outcome of decoding token).                       *)
KeyOffsets == {0, 1, 2, 9, 10, 99, 100, 65536}

CandidateKeys(d) ==
  LET pre == Prefix(d) \o <<"/">>
  IN {KeyOf(d, o) : o \in KeyOffsets}
       \cup {pre \o DecDigits(o) : o \in {1, 10}}
       \cup {pre \o <<"0">> \o Sprintf020d(1),
             Zeros(Len(Prefix(d))) \o <<"/">> \o Sprintf020d(2),
             KeyOf("d1", 2), KeyOf("d3", 2),
             Prefix(d), pre, pre \o <<"1", "a">>, << >>}

KeyInit ==
  /\ store = EmptyFcn
  /\ length = [d \in AllDrivers |-> 0]
  /\ pc = [p \in Procs |-> IF p = 1 THEN "k_map" ELSE "idle"]
  /\ \E d \in {"d1", "d3"}, a \in KeyOffsets, b \in KeyOffsets :
       \E key \in CandidateKeys(d) :
         loc = [p \in Procs |->
                  IF p = 1
                  THEN [IdleLoc EXCEPT !.op = "KeyMap", !.drv = d, !.off = a,
                                       !.maxOffset = b, !.token = key]
                  ELSE IdleLoc]
  /\ last = NoCall
  /\ won = EmptyFcn
  /\ fresh = [d \in AllDrivers |-> 0]
  /\ written = EmptyFcn
  /\ ncalls = 0
  /\ nflips = 0

KeyMap(p) ==
  /\ pc[p] = "k_map"
  /\ LET l == loc[p]
         r == getOffsetFromKey(Prefix(l.drv), l.token)
     IN last' = [NoCall EXCEPT
                   !.op = "KeyMap", !.drv = l.drv, !.target = l.off,
                   !.rdata = getObjectKey(Prefix(l.drv), l.off),
                   !.kind = IF r.panic THEN "Panic"
                            ELSE IF r.err THEN "KeyFormat" ELSE "ok",
                   !.off = r.val]
  /\ pc' = [pc EXCEPT ![p] = "k_done"]
  /\ UNCHANGED <<store, length, loc, won, fresh, written, ncalls, nflips>>

KeyNext == KeyMap(1)

KeySpec == KeyInit /\ [][KeyNext]_vars

(* Append and LastRecord run concurrently on one driver instance while    *)
(* another driver appends to the same namespace                            *)
RaceNext ==
  \E p \in Procs :
    \/ AppendBegin(p, {"d1", "d2"})
    \/ AppendPut(p)
    \/ AppendCommit(p)
    \/ LastRecordBegin(p, {"d1"})
    \/ LastRecordPage(p)
    \/ LastRecordSetLength(p)
    \/ LastRecordRead(p)

RaceSpec == Init /\ [][RaceNext]_vars

(* One call at a time, Append and LastRecord, on three namespaces of one   *)
(* bucket, one of them with the long prefix                                *)
ScanDrivers == {"d1", "d3", "d4"}

ScanNext ==
  \/ AllIdle /\ AppendBegin(1, ScanDrivers)
  \/ AllIdle /\ LastRecordBegin(1, ScanDrivers)
  \/ AppendPut(1)
  \/ AppendCommit(1)
  \/ LastRecordPage(1)
  \/ LastRecordSetLength(1)
  \/ LastRecordRead(1)

ScanSpec == Init /\ [][ScanNext]_vars

(* One call at a time on one namespace, with stored objects damaged, cut   *)
(* short or copied under another key                                       *)
DamageNext ==
  \/ AllIdle /\ ncalls < MaxDamageCalls /\ AppendBegin(1, {"d1"})
  \/ AllIdle /\ ncalls < MaxDamageCalls /\ ReadBegin(1, {"d1", "d2"})
  \/ AllIdle /\ ncalls < MaxDamageCalls /\ LastRecordBegin(1, {"d2"})
  \/ AppendPut(1)
  \/ AppendCommit(1)
  \/ ReadGet(1)
  \/ LastRecordPage(1)
  \/ LastRecordSetLength(1)
  \/ LastRecordRead(1)
  \/ Garble
  \/ Truncate
  \/ Misplace

DamageSpec == Init /\ [][DamageNext]_vars

---------------------------------------------------------------------------
(* Vocabulary of the properties *)

(* The callers whose Append has created the object of key k and has not   *)
(* returned yet                                                            *)
Committing(k) ==
  {p \in Procs : pc[p] = "a_commit" /\ KeyOf(loc[p].drv, loc[p].off) = k}

(* Appends for key k that have succeeded or are bound to *)
Winners(k) == WonOf(k) + Cardinality(Committing(k))

(* The keys of the bucket under the namespace of prefix *)
OwnKeys(st, prefix) ==
  LET pre == prefix \o <<"/">>
  IN {k \in DOMAIN st : Len(k) >= Len(pre) /\ SubSeq(k, 1, Len(pre)) = pre}

---------------------------------------------------------------------------
(* C1: exclusivity of an offset.  No key has more than one Append that     *)
(* succeeded for it, under every interleaving of callers on one driver     *)
(* and on several drivers; and whenever an Append whose put was answered   *)
(* by the bucket did not succeed, it failed with AlreadyExists and exactly *)
(* one Append for that key succeeded (has returned success, or has created *)
(* the object and is about to return).                                     *)
C1_Exclusive ==
  /\ \A k \in DOMAIN store \cup DOMAIN won : Winners(k) <= 1
  /\ (last.op = "Append" /\ last.kind \notin {"ok", "Transport"}) =>
       /\ last.kind = "AlreadyExists"
       /\ Winners(KeyOf(last.drv, last.target)) = 1

(* Two Appends of one driver instance ran from the same cursor value: one  *)
(* created the object, the other has returned AlreadyExists.               *)
C1_Witness ==
  \E p \in Procs :
    /\ pc[p] = "a_commit"
    /\ last.op = "Append" /\ last.kind = "AlreadyExists"
    /\ last.drv = loc[p].drv /\ last.target = loc[p].off
    /\ last.len0 = loc[p].len0

(* C2: immutability of committed records.  In every step of every call of  *)
(* every driver, each object of the bucket stays, with the same bytes.     *)
C2_Immutable ==
  [][\A k \in DOMAIN store : k \in DOMAIN store' /\ store'[k] = store[k]]_vars

(* An Append with another payload was attempted on an existing key and     *)
(* the object still holds the bytes first written.                         *)
C2_Witness ==
  /\ last.op = "Append" /\ last.kind = "AlreadyExists"
  /\ LET k == KeyOf(last.drv, last.target)
     IN /\ k \in DOMAIN store
        /\ written[k].data # last.data
        /\ store[k] = written[k].body

(* C3: Append monotonicity.  With calls made one at a time, a driver that  *)
(* has only appended since its construction has a cursor equal to the      *)
(* number of its successful Appends, and its latest successful Append      *)
(* returned that number: the successes return 1, 2, ..., N in order.       *)
C3_Monotone ==
  \A d \in Drivers :
    fresh[d] >= 0 =>
      /\ length[d] = fresh[d]
      /\ (last.op = "Append" /\ last.kind = "ok" /\ last.drv = d) =>
           last.off = fresh[d]

(* Three successful Appends of one driver on a namespace that was empty *)
C3_Witness ==
  /\ fresh["d1"] = 3
  /\ last.op = "Append" /\ last.kind = "ok" /\ last.drv = "d1" /\ last.off = 3
  /\ DOMAIN store = {KeyOf("d1", 1), KeyOf("d1", 2), KeyOf("d1", 3)}

(* C4: round-trip integrity.  A Read, answered by the bucket, of an offset *)
(* for which an Append has returned success returns that offset and the    *)
(* payload that was appended, the empty payload included, whichever driver *)
(* of the namespace reads.                                                 *)
C4_RoundTrip ==
  (/\ last.op = "Read"
   /\ last.kind # "Transport"
   /\ WonOf(KeyOf(last.drv, last.target)) >= 1) =>
    /\ last.kind = "ok"
    /\ last.off = last.target
    /\ last.rdata = written[KeyOf(last.drv, last.target)].data

(* A driver that never appended reads back the empty payload another       *)
(* driver of the namespace appended at offset 2.                           *)
C4_Witness ==
  /\ last.op = "Read" /\ last.kind = "ok" /\ last.drv = "d2" /\ last.off = 2
  /\ last.rdata = << >>
  /\ fresh["d2"] = 0
  /\ written[KeyOf("d1", 1)].data = <<7>>

(* C5: recovery.  With calls made one at a time, when the namespace of a   *)
(* driver holds exactly the offsets 1..M, M >= 1, a LastRecord of that     *)
(* driver issued at cursor 0 and answered by the bucket returns offset M   *)
(* with the payload appended at M and leaves the cursor at M.              *)
C5_Recovery ==
  LET d == last.drv
      own == OwnKeys(store, Prefix(d))
      M == Cardinality(own)
  IN (/\ AllIdle
      /\ last.op = "LastRecord" /\ last.len0 = 0 /\ last.kind # "Transport"
      /\ M >= 1
      /\ own = {KeyOf(d, o) : o \in 1..M}) =>
       /\ last.kind = "ok"
       /\ last.off = M
       /\ last.rdata = written[KeyOf(d, M)].data
       /\ length[d] = M

(* C6: a failed Append is a no-op.  With calls made one at a time: issuing *)
(* an Append changes neither bucket nor cursors; an Append that returns an *)
(* error returns AlreadyExists or a transport error with the bucket as it  *)
(* was and the cursor at its value before the call; an Append whose put    *)
(* succeeds adds exactly the object of key cursor+1 and then returns       *)
(* cursor+1 with the cursor advanced by exactly 1.                         *)
C6_FailedAppendNoOp ==
  [][\A p \in Procs :
       LET l == loc[p]
           key == KeyOf(l.drv, l.len0 + 1)
       IN /\ (pc[p] = "idle" /\ pc'[p] = "a_put") =>
               (store' = store /\ length' = length)
          /\ (pc[p] = "a_put" /\ pc'[p] = "idle") =>
               /\ last'.kind \in {"AlreadyExists", "Transport"}
               /\ store' = store
               /\ length' = length
               /\ length[l.drv] = l.len0
          /\ (pc[p] = "a_put" /\ pc'[p] = "a_commit") =>
               /\ key \notin DOMAIN store
               /\ DOMAIN store' = DOMAIN store \cup {key}
               /\ \A k \in DOMAIN store : store'[k] = store[k]
               /\ length' = length
          /\ (pc[p] = "a_commit" /\ pc'[p] = "idle") =>
               /\ last'.kind = "ok" /\ last'.off = l.len0 + 1
               /\ store' = store
               /\ length' = [length EXCEPT ![l.drv] = l.len0 + 1]
               /\ length[l.drv] = l.len0]_vars

(* An Append has just failed with AlreadyExists on a key another driver    *)
(* took, and the cursor stands where it stood before the call.             *)
C6_Witness ==
  /\ AllIdle
  /\ last.op = "Append" /\ last.kind = "AlreadyExists"
  /\ KeyOf(last.drv, last.target) \in DOMAIN store
  /\ length[last.drv] = last.len0
  /\ last.target = 2

(* C7: corruption detection.  A Read, answered by the bucket, of an object *)
(* whose offset field or payload differs from the bytes Append stored      *)
(* (digest field as written) fails with OffsetMismatch or                  *)
(* ChecksumMismatch; and a Read that succeeds returns the payload that was *)
(* appended at that offset.                                                *)
C7_Detects ==
  [][\A p \in Procs :
       (pc[p] = "r_get" /\ pc'[p] = "idle") =>
         LET k == KeyOf(loc[p].drv, loc[p].off)
         IN k \in DOMAIN written =>
              /\ (store[k] # written[k].body /\ last'.kind # "Transport") =>
                   last'.kind \in {"OffsetMismatch", "ChecksumMismatch"}
              /\ last'.kind = "ok" => last'.rdata = written[k].data]_vars

(* A Read of an object with a flipped payload bit has failed on the digest *)
C7_Witness ==
  /\ nflips >= 1
  /\ last.op = "Read" /\ last.kind = "ChecksumMismatch"
  /\ LET k == KeyOf(last.drv, last.target)
     IN /\ store[k] # written[k].body
        /\ SubSeq(store[k], 1, OffsetLen) = SubSeq(written[k].body, 1, OffsetLen)

(* C8: unknown offset.  A Read, answered by the bucket, of an offset whose *)
(* key holds no object fails with NoSuchRecord, which is none of the       *)
(* other kinds, and returns the empty record.                              *)
C8_UnknownOffset ==
  (/\ last.op = "Read"
   /\ last.kind # "Transport"
   /\ KeyOf(last.drv, last.target) \notin DOMAIN store) =>
    /\ last.kind = "NoSuchRecord"
    /\ last.off = 0
    /\ last.rdata = << >>

(* Offset 2 was read in a namespace that holds offset 1 only *)
C8_Witness ==
  /\ last.op = "Read" /\ last.kind = "NoSuchRecord" /\ last.target = 2
  /\ OwnKeys(store, Prefix(last.drv)) = {KeyOf(last.drv, 1)}

(* C9: namespace scoping of LastRecord.  With calls made one at a time, a  *)
(* LastRecord without transport errors returns what it returns on the      *)
(* bucket cut down to the keys under the driver's own prefix, and updates  *)
(* the cursor as it does there.                                            *)
C9_Scoped ==
  LET d == last.drv
      own == OwnKeys(store, Prefix(d))
      alone == LastRecordOn([k \in own |-> store[k]], Prefix(d))
  IN (AllIdle /\ last.op = "LastRecord" /\ last.kind # "Transport") =>
       /\ last.kind = alone.kind
       /\ last.off = alone.off
       /\ last.rdata = alone.data
       /\ length[d] = IF alone.sets THEN alone.max ELSE last.len0

(* C10: EmptyLog.  With calls made one at a time, a LastRecord answered by *)
(* the bucket fails with EmptyLog exactly when no key exists under the     *)
(* driver's prefix, and then returns no record and leaves the cursor.      *)
C10_EmptyLog ==
  LET d == last.drv
  IN (AllIdle /\ last.op = "LastRecord" /\ last.kind # "Transport") =>
       /\ (last.kind = "EmptyLog") <=> (OwnKeys(store, Prefix(d)) = {})
       /\ last.kind = "EmptyLog" =>
            (last.off = 0 /\ last.rdata = << >> /\ length[d] = last.len0)

(* The keys LastRecord of driver d enumerates that do not decode *)
Undecodable(d) ==
  {k \in ListedKeys(store, Prefix(d)) : getOffsetFromKey(Prefix(d), k).err}

(* C11: fatal key corruption.  With calls made one at a time, a LastRecord *)
(* answered by the bucket whose enumeration holds a key that does not      *)
(* decode to an offset returns the KeyFormat error, however many keys      *)
(* decode and whichever page the key is on; it returns no record and       *)
(* leaves the cursor at its value before the call.                         *)
C11_FatalKey ==
  (/\ AllIdle
   /\ last.op = "LastRecord" /\ last.kind # "Transport"
   /\ Undecodable(last.drv) # {}) =>
    /\ last.kind = "KeyFormat"
    /\ last.off = 0 /\ last.rdata = << >>
    /\ length[last.drv] = last.len0

(* C12: Read is free of side effects.  Every step of every Read, from its  *)
(* issue to its return with any outcome, leaves every driver's cursor and  *)
(* the bucket (its keys and their bytes) as they were.                     *)
C12_ReadPure ==
  [][\A p \in Procs :
       (pc[p] = "r_get" \/ pc'[p] = "r_get") =>
         (store' = store /\ length' = length)]_vars

(* A Read of an object cut short has returned Malformed to a driver whose  *)
(* cursor stands at 1, and the cut object is still there.                  *)
C12_Witness ==
  /\ last.op = "Read" /\ last.kind = "Malformed"
  /\ length[last.drv] = 1 /\ last.len0 = 1
  /\ Len(store[KeyOf(last.drv, last.target)]) = MinRecordLen - 1

(* The highest offset among the keys the listing of driver d holds, 0 when *)
(* it holds none                                                           *)
HighestListed(d) ==
  LET O == {getOffsetFromKey(Prefix(d), k).val : k \in ListedKeys(store, Prefix(d))}
  IN IF O = {} THEN 0 ELSE CHOOSE m \in O : \A o \in O : o <= m

(* C13: complete enumeration.  With calls made one at a time, LastRecord   *)
(* leaves its page loop for the emptiness test only when no page remains,  *)
(* every listed key has decoded, and its maximum is the highest offset     *)
(* over the keys of all pages; and when it returns from the page loop it   *)
(* returns the error of that page (of the listing or of a key) with the    *)
(* cursor at its value before the call.                                    *)
C13_AllPages ==
  [][\A p \in Procs :
       LET d == loc[p].drv
       IN /\ (pc[p] = "lr_page" /\ pc'[p] = "lr_set") =>
               /\ Undecodable(d) = {}
               /\ loc'[p].maxOffset = HighestListed(d)
               /\ \A k \in ListedKeys(store, Prefix(d)) :
                     k = loc'[p].token \/ StrLess(k, loc'[p].token)
          /\ (pc[p] = "lr_page" /\ pc'[p] = "idle") =>
               /\ last'.kind \in {"Transport", "KeyFormat"}
               /\ last'.off = 0 /\ last'.rdata = << >>
               /\ length' = length
               /\ length[d] = loc[p].len0]_vars

(* A listing of three keys on two pages has been drained, and its highest  *)
(* offset, 2, was on the first page.                                       *)
C13_Witness ==
  /\ pc[1] = "lr_set"
  /\ Cardinality(DOMAIN store) = 3
  /\ loc[1].maxOffset = 2
  /\ getOffsetFromKey(Prefix(loc[1].drv), loc[1].token).val = 1

(* C14, as claimed: with calls made one at a time, a LastRecord that       *)
(* returned an error, the error of its delegated Read included, has left   *)
(* the cursor at its value before the call.                                *)
C14_OnlyOnSuccess ==
  (AllIdle /\ last.op = "LastRecord" /\ last.kind # "ok") =>
    length[last.drv] = last.len0

(* C14, amended: LastRecord changes the cursor exactly when its scan       *)
(* succeeds.  A LastRecord that returns from the page loop or with         *)
(* EmptyLog leaves the cursor at its value before the call; once the scan  *)
(* has found a maximum M > 0 the cursor is set to M, and it is M when the  *)
(* delegated Read returns, whatever the Read returns.                      *)
C14_ScanSetsCursor ==
  [][\A p \in Procs :
       LET l == loc[p]
       IN /\ (pc[p] \in {"lr_page", "lr_set"} /\ pc'[p] = "idle") =>
               /\ last'.kind \in {"Transport", "KeyFormat", "Panic", "EmptyLog"}
               /\ length' = length
               /\ length[l.drv] = l.len0
          /\ (pc[p] = "lr_set" /\ pc'[p] = "lr_read") =>
               /\ l.maxOffset > 0
               /\ length' = [length EXCEPT ![l.drv] = l.maxOffset]
          /\ (pc[p] = "lr_read" /\ pc'[p] = "idle") =>
               /\ length' = length
               /\ length[l.drv] = l.maxOffset
               /\ last'.kind = "ok" => last'.off = l.maxOffset]_vars

(* A LastRecord of a driver at cursor 0 has found offset 1, its Read has   *)
(* failed on the object cut short, and the cursor stands at 1.             *)
C14_Witness ==
  /\ AllIdle
  /\ last.op = "LastRecord" /\ last.kind = "Malformed"
  /\ last.len0 = 0 /\ length[last.drv] = 1

(* C15: the cursor never runs ahead of storage.  In every reachable state, *)
(* under every interleaving of the calls of all drivers, the cursor of     *)
(* each driver is 0 or the offset of an object stored under the driver's   *)
(* own prefix.                                                             *)
C15_CursorBacked ==
  \A d \in Drivers :
    length[d] = 0 \/ KeyOf(d, length[d]) \in OwnKeys(store, Prefix(d))

(* C16: no gaps.  In every reachable state the offsets that have an object *)
(* under a prefix are exactly 1..M, M being their number.                  *)
C16_NoGaps ==
  \A d \in Drivers :
    LET own == OwnKeys(store, Prefix(d))
    IN own = {KeyOf(d, o) : o \in 1..Cardinality(own)}

(* C17, as claimed: no step of any interleaving of Appends and LastRecords *)
(* lowers the cursor of a driver.                                          *)
C17_CursorMonotone ==
  [][\A d \in Drivers : length'[d] >= length[d]]_vars

(* C17, amended: the cursor of a driver never decreases while the calls on *)
(* that instance do not overlap, whatever other drivers do meanwhile.  A   *)
(* step of a call lowers the cursor of its driver only when the cursor is  *)
(* no longer what it was when the call was issued, that is when another    *)
(* call on the same instance has written it in between.                    *)
C17_LoweredOnlyByOverlap ==
  [][\A p \in Procs :
       LET d == loc[p].drv
       IN (pc[p] # "idle" /\ pc'[p] # pc[p] /\ length'[d] < length[d]) =>
            length[d] # loc[p].len0]_vars

(* An Append of d1 issued at cursor 0 has committed offset 1 after other   *)
(* calls on d1 had moved the cursor to 2: d1 has stored offset 2 (d2 has   *)
(* not appended) and its cursor reads 1.                                   *)
C17_Witness ==
  /\ last.op = "Append" /\ last.kind = "ok" /\ last.drv = "d1"
  /\ last.off = 1 /\ last.len0 = 0
  /\ WonOf(KeyOf("d1", 2)) = 1
  /\ fresh["d2"] = 0 /\ length["d2"] = 0
  /\ length["d1"] = 1

(* C18: retry after a lost race.  With calls made one at a time: when an   *)
(* Append of a driver has failed with AlreadyExists, the next call to      *)
(* return was a successful LastRecord of that driver returning offset M,   *)
(* and the next one an Append of that driver answered by the bucket, that  *)
(* Append has succeeded and returned M+1.                                  *)
C18_Retry ==
  (last.retry = 3 /\ last.kind # "Transport") =>
    /\ last.kind = "ok"
    /\ last.off = last.recovered + 1
    /\ length[last.drv] = last.recovered + 1

(* d1 lost offset 1 to another driver, recovered 1 with LastRecord and has *)
(* appended offset 2.                                                      *)
C18_Witness ==
  /\ last.retry = 3 /\ last.op = "Append" /\ last.kind = "ok"
  /\ last.drv = "d1" /\ last.recovered = 1 /\ last.off = 2
  /\ fresh["d1"] = -1
  /\ WonOf(KeyOf("d1", 1)) = 1

(* C19: validation order and kinds in Read.  A Read that the bucket        *)
(* answers with an object b returns Malformed when b has fewer than 40     *)
(* bytes; otherwise OffsetMismatch when the first 8 bytes are not the      *)
(* requested offset in big-endian, whether or not the digest fits, also    *)
(* for the bytes Append stored for another offset; otherwise               *)
(* ChecksumMismatch when the last 32 bytes are not the digest of the bytes *)
(* before them; otherwise it returns the requested offset and b[8:len-32]. *)
C19_ValidationOrder ==
  [][\A p \in Procs :
       LET o == loc[p].off
           k == KeyOf(loc[p].drv, o)
       IN (/\ pc[p] = "r_get" /\ pc'[p] = "idle"
           /\ last'.kind # "Transport"
           /\ k \in DOMAIN store) =>
            LET b == store[k]
                n == Len(b)
                offsetFits == SubSeq(b, 1, OffsetLen) = EncodeBE(o)
                digestFits ==
                  SubSeq(b, n - ChecksumLen + 1, n) = Sum256(SubSeq(b, 1, n - ChecksumLen))
                copied == \E j \in DOMAIN written : j # k /\ b = written[j].body
            IN /\ last'.kind =
                    IF n < MinRecordLen THEN "Malformed"
                    ELSE IF ~offsetFits THEN "OffsetMismatch"
                    ELSE IF ~digestFits THEN "ChecksumMismatch"
                    ELSE "ok"
               /\ copied => last'.kind = "OffsetMismatch"
               /\ last'.kind = "ok" =>
                    /\ last'.off = o
                    /\ last'.rdata = SubSeq(b, OffsetLen + 1, n - ChecksumLen)
               /\ last'.kind # "ok" => (last'.off = 0 /\ last'.rdata = << >>)]_vars

(* A Read of offset 2 has met, under the key of offset 2, the intact bytes *)
(* Append stored for offset 1, and has returned OffsetMismatch.            *)
C19_Witness ==
  /\ last.op = "Read" /\ last.kind = "OffsetMismatch" /\ last.target = 2
  /\ KeyOf(last.drv, 2) \in DOMAIN store
  /\ KeyOf(last.drv, 1) \in DOMAIN written
  /\ store[KeyOf(last.drv, 2)] = written[KeyOf(last.drv, 1)].body
  /\ validateChecksum(store[KeyOf(last.drv, 2)])

(* Key k has the layout of the namespace of driver d: the prefix, "/" and  *)
(* KeyWidth more characters                                                *)
HasKeyLayout(d, k) ==
  LET pre == Prefix(d) \o <<"/">>
  IN Len(k) = Len(pre) + KeyWidth /\ SubSeq(k, 1, Len(pre)) = pre

(* C20, as claimed: decoding the key produced for an offset returns the    *)
(* offset; different offsets have different keys; a smaller offset has the *)
(* smaller key; and a key that decodes to an offset is the key produced    *)
(* for it.                                                                 *)
C20_Bijection ==
  pc[1] = "k_done" =>
    LET l == loc[1]
        prefix == Prefix(l.drv)
    IN /\ l.token = last.rdata => (last.kind = "ok" /\ last.off = l.off)
       /\ l.off # l.maxOffset => last.rdata # getObjectKey(prefix, l.maxOffset)
       /\ l.off < l.maxOffset =>
            StrLess(last.rdata, getObjectKey(prefix, l.maxOffset))
       /\ (last.kind = "ok" /\ last.off = l.off) => l.token = last.rdata

(* C20, amended: decoding the key produced for an offset returns the       *)
(* offset; different offsets have different keys; a smaller offset has the *)
(* smaller key; and among the keys of the namespace's layout (prefix, "/", *)
(* 20 characters) the only one that decodes to an offset is the key        *)
(* produced for it.                                                        *)
C20_BijectionOnLayout ==
  pc[1] = "k_done" =>
    LET l == loc[1]
        prefix == Prefix(l.drv)
    IN /\ l.token = last.rdata => (last.kind = "ok" /\ last.off = l.off)
       /\ l.off # l.maxOffset => last.rdata # getObjectKey(prefix, l.maxOffset)
       /\ l.off < l.maxOffset =>
            StrLess(last.rdata, getObjectKey(prefix, l.maxOffset))
       /\ (last.kind = "ok" /\ last.off = l.off /\ HasKeyLayout(l.drv, l.token)) =>
            l.token = last.rdata

(* The key produced for 10 has been decoded back to 10, and it is greater  *)
(* than the key produced for 9.                                            *)
C20_Witness ==
  /\ pc[1] = "k_done"
  /\ loc[1].off = 10 /\ loc[1].maxOffset = 9
  /\ loc[1].token = last.rdata
  /\ last.kind = "ok" /\ last.off = 10
  /\ StrLess(KeyOf(loc[1].drv, 9), last.rdata)

====
